---- MODULE Spec2Model ----
(***************************************************************************)
(* rfetch (src/rfetch/src/main.rs): a linear program that runs twelve      *)
(* probes of the host and prints their results in a fixed layout.          *)
(*                                                                         *)
(* Text is a sequence of one-character strings.  The host (files,          *)
(* environment, the outcome of `uname -r`, swap counters, the disk list)   *)
(* is chosen by Init and does not change during a run.  pc is the line of  *)
(* main() that executes next.                                              *)
(***************************************************************************)
EXTENDS Integers, Sequences, FiniteSets, TLC

(* ----------------------------- text ------------------------------------ *)

Digits == <<"0","1","2","3","4","5","6","7","8","9">>

IsDigit(c) == \E i \in 1..10 : Digits[i] = c

DigitVal(c) == (CHOOSE i \in 1..10 : Digits[i] = c) - 1

\* char::is_whitespace, on the characters the modelled host can hold
IsWhitespace(c) == c \in {" ", "\t", "\n", "\r"}

RECURSIVE Dec(_)
\* Display of an unsigned integer: "{}"
Dec(n) == IF n < 10 THEN <<Digits[n + 1]>> ELSE Dec(n \div 10) \o <<Digits[(n % 10) + 1]>>

\* str::starts_with
StartsWith(t, p) == Len(p) <= Len(t) /\ SubSeq(t, 1, Len(p)) = p

\* str::contains
Contains(t, p) == \E i \in 1..(Len(t) - Len(p) + 1) : SubSeq(t, i, i + Len(p) - 1) = p

RECURSIVE TrimStart(_)
TrimStart(t) == IF t # <<>> /\ IsWhitespace(Head(t)) THEN TrimStart(Tail(t)) ELSE t

RECURSIVE TrimEnd(_)
TrimEnd(t) == IF t # <<>> /\ IsWhitespace(t[Len(t)]) THEN TrimEnd(SubSeq(t, 1, Len(t) - 1)) ELSE t

\* str::trim
Trim(t) == TrimEnd(TrimStart(t))

RECURSIVE SplitOn(_, _)
\* The pieces of t between occurrences of the character sep (empty pieces kept)
SplitOn(t, sep) ==
    IF \A i \in 1..Len(t) : t[i] # sep THEN <<t>>
    ELSE LET i == CHOOSE k \in 1..Len(t) : t[k] = sep /\ \A j \in 1..(k - 1) : t[j] # sep
         IN <<SubSeq(t, 1, i - 1)>> \o SplitOn(SubSeq(t, i + 1, Len(t)), sep)

\* str::lines: split at "\n", no final empty line, one trailing "\r" dropped per line
Lines(t) ==
    LET raw == SplitOn(t, "\n")
        kept == IF raw[Len(raw)] = <<>> THEN SubSeq(raw, 1, Len(raw) - 1) ELSE raw
    IN [i \in 1..Len(kept) |->
          IF kept[i] # <<>> /\ kept[i][Len(kept[i])] = "\r"
          THEN SubSeq(kept[i], 1, Len(kept[i]) - 1) ELSE kept[i]]

RECURSIVE SplitWhitespace(_)
\* str::split_whitespace: the maximal runs of non-whitespace characters
SplitWhitespace(t) ==
    LET s == TrimStart(t) IN
    IF s = <<>> THEN <<>>
    ELSE IF \A i \in 1..Len(s) : ~IsWhitespace(s[i]) THEN <<s>>
    ELSE LET i == CHOOSE k \in 1..Len(s) : IsWhitespace(s[k]) /\ \A j \in 1..(k - 1) : ~IsWhitespace(s[j])
         IN <<SubSeq(s, 1, i - 1)>> \o SplitWhitespace(SubSeq(s, i + 1, Len(s)))

RECURSIVE Replace(_, _)
\* str::replace(p, ""): every non-overlapping occurrence of p removed, left to right
Replace(t, p) ==
    IF t = <<>> THEN <<>>
    ELSE IF StartsWith(t, p) THEN Replace(SubSeq(t, Len(p) + 1, Len(t)), p)
    ELSE <<Head(t)>> \o Replace(Tail(t), p)

RECURSIVE Join(_, _)
\* The texts of ts, each followed by the text end
Join(ts, end) == IF ts = <<>> THEN <<>> ELSE Head(ts) \o end \o Join(Tail(ts), end)

(* ----------------------------- numbers --------------------------------- *)

\* Result<_, _> / Option<_> of a text
None == [ok |-> FALSE, text |-> <<>>]

Some(t) == [ok |-> TRUE, text |-> t]

RECURSIVE DigitsVal(_)
\* The number a non-empty run of decimal digits denotes
DigitsVal(ds) == IF Len(ds) = 1 THEN DigitVal(ds[1])
                 ELSE DigitsVal(SubSeq(ds, 1, Len(ds) - 1)) * 10 + DigitVal(ds[Len(ds)])

AllDigits(t) == \A i \in 1..Len(t) : IsDigit(t[i])

\* <u64 as FromStr>::from_str: an optional "+", then one or more digits.  The
\* modelled host holds numbers of at most nine digits, so the overflow error of
\* twenty digits and more is out of reach.
parse_u64(tok) ==
    LET ds == IF tok # <<>> /\ Head(tok) = "+" THEN Tail(tok) ELSE tok IN
    IF ds # <<>> /\ AllDigits(ds) THEN [ok |-> TRUE, val |-> DigitsVal(ds)]
    ELSE [ok |-> FALSE, val |-> 0]

\* <f64 as FromStr>::from_str on tokens without exponent, "inf" or "nan" (none is
\* in the modelled host): an optional sign, digits with at most one ".", at
\* least one digit.  The value is kept as its sign and integer part: the
\* modelled fractions have at most two digits, which neither parse nor division
\* by 60.0 rounds to the next integer.
parse_f64(tok) ==
    LET neg  == tok # <<>> /\ Head(tok) = "-"
        body == IF tok # <<>> /\ Head(tok) \in {"+", "-"} THEN Tail(tok) ELSE tok
        parts == SplitOn(body, ".")
        int  == parts[1]
        frac == IF Len(parts) = 2 THEN parts[2] ELSE <<>>
        good == /\ Len(parts) <= 2
                /\ AllDigits(int) /\ AllDigits(frac)
                /\ Len(int) + Len(frac) >= 1
    IN IF good THEN [ok |-> TRUE, neg |-> neg, whole |-> IF int = <<>> THEN 0 ELSE DigitsVal(int)]
       ELSE [ok |-> FALSE, neg |-> FALSE, whole |-> 0]

\* An f64 that is an exact quotient of integers: base * 2^44 + num / den, den > 0.
\* base is 1 only for the quotient of a wrapped u64 (see sub_u64), where num <= 0.
Ratio(n, d) == [base |-> 0, num |-> n, den |-> d]

\* "{:.1}": one decimal digit, the exact value rounded to nearest, ties to even.
\* 2^44 * 10 = 175921860444160 is written as 1759218 * 10^8 + 60444160.
Fmt1(x) ==
    LET n == IF x.num < 0 THEN 0 - x.num ELSE x.num
        q == (n * 10) \div x.den
        r == (n * 10) % x.den
        t == IF 2 * r > x.den \/ (2 * r = x.den /\ q % 2 = 1) THEN q + 1 ELSE q
    IN IF x.base = 0
       THEN (IF x.num < 0 THEN <<"-">> ELSE <<>>) \o Dec(t \div 10) \o <<".">> \o Dec(t % 10)
       ELSE LET low == 60444160 - t
            IN Dec(1759218) \o Dec(low \div 10) \o <<".">> \o Dec(low % 10)

(* A u64 is written as an integer n: n >= 0 is the value n, n < 0 is the value    *)
(* 2^64 + n, the top of the range, which only a wrapped subtraction reaches.      *)

\* `a - b` on u64 (main.rs:149): with overflow checks (the dev profile) an
\* underflow panics, without them (the release profile) it wraps modulo 2^64.
sub_u64(a, b, overflow_checks) ==
    IF a < b /\ overflow_checks THEN [panic |-> TRUE, val |-> 0]
    ELSE [panic |-> FALSE, val |-> a - b]

(* ----------------------------- probes ---------------------------------- *)

unknown == <<"u","n","k","n","o","w","n">>

\* std::env::var("USER").unwrap_or_else(|_| "unknown".into())
get_username(USER) == IF USER.ok THEN USER.text ELSE unknown

get_hostname(etc_hostname) == Trim(IF etc_hostname.ok THEN etc_hostname.text ELSE unknown)

\* The `return` of line 45 leaves the closure, not get_os: an unreadable file
\* is scanned as the one-line content "unknow".
get_os(etc_os_release) ==
    LET content == IF etc_os_release.ok THEN etc_os_release.text ELSE <<"u","n","k","n","o","w">>
        lines == Lines(content)
        hits == {i \in 1..Len(lines) : StartsWith(lines[i], <<"P","R","E","T","T","Y","_","N","A","M","E","=">>)}
    IN IF hits = {} THEN unknown
       ELSE LET line == lines[CHOOSE i \in hits : \A j \in hits : i <= j]
            IN Replace(Replace(line, <<"P","R","E","T","T","Y","_","N","A","M","E","=">>), <<"\"">>)

\* detect_init with the openrc test on the start of exe instead of anywhere in it
detect_init_starts_with(proc_1_comm, proc_1_exe, run_systemd_exists) ==
    LET comm == Trim(IF proc_1_comm.ok THEN proc_1_comm.text ELSE <<>>)
        exe == IF proc_1_exe.ok THEN proc_1_exe.text ELSE <<>>
    IN CASE comm = <<"s","y","s","t","e","m","d">> -> <<"s","y","s","t","e","m","d">>
         [] comm \in {<<"r","u","n","i","t">>, <<"r","u","n","s","v","i","n","i","t">>} -> <<"r","u","n","i","t">>
         [] comm = <<"s","6","-","s","v","s","c","a","n">> -> <<"s","6">>
         [] comm = <<"i","n","i","t">> -> IF StartsWith(exe, <<"o","p","e","n","r","c">>) THEN <<"o","p","e","n","r","c">> ELSE <<"s","y","s","v","i","n","i","t">>
         [] OTHER -> IF run_systemd_exists THEN <<"s","y","s","t","e","m","d"," ","(","f","a","l","l","b","a","c","k",")">>
                     ELSE <<"u","n","k","n","o","w","n"," ","(">> \o comm \o <<")">>

detect_init(proc_1_comm, proc_1_exe, run_systemd_exists) ==
    LET comm == Trim(IF proc_1_comm.ok THEN proc_1_comm.text ELSE <<>>)
        exe == IF proc_1_exe.ok THEN proc_1_exe.text ELSE <<>>
    IN CASE comm = <<"s","y","s","t","e","m","d">> -> <<"s","y","s","t","e","m","d">>
         [] comm \in {<<"r","u","n","i","t">>, <<"r","u","n","s","v","i","n","i","t">>} -> <<"r","u","n","i","t">>
         [] comm = <<"s","6","-","s","v","s","c","a","n">> -> <<"s","6">>
         [] comm = <<"i","n","i","t">> -> IF Contains(exe, <<"o","p","e","n","r","c">>) THEN <<"o","p","e","n","r","c">> ELSE <<"s","y","s","v","i","n","i","t">>
         [] OTHER -> IF run_systemd_exists THEN <<"s","y","s","t","e","m","d"," ","(","f","a","l","l","b","a","c","k",")">>
                     ELSE <<"u","n","k","n","o","w","n"," ","(">> \o comm \o <<")">>

\* uname is the outcome of Command::new("uname").arg("-r").output(): whether the
\* child could be started, its exit status and its standard output.
get_kernel(uname) == IF uname.spawned THEN Trim(uname.stdout) ELSE unknown

\* get_uptime with the minutes not reduced modulo 60
get_uptime_no_mod(proc_uptime) ==
    LET content == IF proc_uptime.ok THEN proc_uptime.text ELSE unknown
        toks == SplitWhitespace(content)
        p == parse_f64(IF toks = <<>> THEN <<"0">> ELSE toks[1])
        minutes == IF p.ok /\ ~p.neg THEN p.whole \div 60 ELSE 0
        hours == minutes \div 60
    IN Dec(hours) \o <<"h"," ">> \o Dec(minutes) \o <<"m">>

\* The `return` of line 103 leaves the closure, not get_uptime: an unreadable
\* file is parsed as the content "unknown".
get_uptime(proc_uptime) ==
    LET content == IF proc_uptime.ok THEN proc_uptime.text ELSE unknown
        toks == SplitWhitespace(content)
        p == parse_f64(IF toks = <<>> THEN <<"0">> ELSE toks[1])
        \* (seconds / 60.0) as u64: truncation, negative values saturate to 0
        minutes == IF p.ok /\ ~p.neg THEN p.whole \div 60 ELSE 0
        hours == minutes \div 60
        mins == minutes % 60
    IN Dec(hours) \o <<"h"," ">> \o Dec(mins) \o <<"m">>

\* Path::file_name: the last component, unless the path has none or ends in "..";
\* empty components and "." components do not count.
file_name(path) ==
    LET comps == SelectSeq(SplitOn(path, "/"), LAMBDA c : c # <<>> /\ c # <<".">>)
    IN IF comps = <<>> \/ comps[Len(comps)] = <<".",".">> THEN None ELSE Some(comps[Len(comps)])

get_shell(SHELL) ==
    LET name == IF SHELL.ok THEN file_name(SHELL.text) ELSE None
    IN IF name.ok THEN name.text ELSE unknown

extract_kb(line) ==
    LET toks == SplitWhitespace(line)
        p == parse_u64(IF Len(toks) < 2 THEN <<"0">> ELSE toks[2])
    IN IF p.ok THEN p.val ELSE 0

\* kb as f64 / 1024.0 / 1024.0.  A wrapped kb = 2^64 - k first rounds to the
\* nearest f64, a multiple of 2048 (ties to the even mantissa).
kb_to_gib(kb) ==
    IF kb >= 0 THEN Ratio(kb, 1048576)
    ELSE LET k == 0 - kb
             q == k \div 2048
             r == k % 2048
             j == IF r > 1024 \/ (r = 1024 /\ q % 2 = 1) THEN q + 1 ELSE q
         IN [base |-> 1, num |-> 0 - j, den |-> 512]

RECURSIVE scan_meminfo(_, _, _)
\* The loop of lines 137-143 over the remaining lines: <<total, available>>
scan_meminfo(lines, total, available) ==
    IF lines = <<>> THEN <<total, available>>
    ELSE IF StartsWith(Head(lines), <<"M","e","m","T","o","t","a","l",":">>)
         THEN scan_meminfo(Tail(lines), extract_kb(Head(lines)), available)
    ELSE IF StartsWith(Head(lines), <<"M","e","m","A","v","a","i","l","a","b","l","e",":"," ">>)
         THEN scan_meminfo(Tail(lines), total, extract_kb(Head(lines)))
    ELSE scan_meminfo(Tail(lines), total, available)

\* The `return` of line 132 leaves the closure: an unreadable file is scanned as
\* the content "unknown", which holds neither key.
get_memory(proc_meminfo, overflow_checks) ==
    LET content == IF proc_meminfo.ok THEN proc_meminfo.text ELSE unknown
        ta == scan_meminfo(Lines(content), 0, 0)
        total == ta[1]
        available == ta[2]
        used == sub_u64(total, available, overflow_checks)
    IN IF total = 0 THEN [panic |-> FALSE, text |-> unknown, used |-> 0, total |-> 0]
       ELSE IF used.panic THEN [panic |-> TRUE, text |-> <<>>, used |-> 0, total |-> total]
       ELSE [panic |-> FALSE,
             text |-> Fmt1(kb_to_gib(used.val)) \o <<" ","G","i","B"," ","/"," ">> \o Fmt1(kb_to_gib(total)) \o <<" ","G","i","B">>,
             used |-> used.val, total |-> total]

\* Swap counters are in units of 10^8 bytes: x as f64 / 1_000_000_000.0
get_swap(swap_counters) ==
    Fmt1(Ratio(swap_counters.used, 10)) \o <<" ","G","i","B"," ","/"," ">> \o Fmt1(Ratio(swap_counters.total, 10)) \o <<" ","G","i","B">>

RECURSIVE best_match_last_seen(_, _, _, _)
\* best_match with `>=` for `>`: of equally long mount points the last seen wins
best_match_last_seen(disks, path, i, best) ==
    IF i > Len(disks) THEN best
    ELSE LET mount == disks[i].mount
             next == IF StartsWith(path, mount) /\ (~best.some \/ Len(mount) >= best.len)
                     THEN [some |-> TRUE, len |-> Len(mount), disk |-> i]
                     ELSE best
         IN best_match_last_seen(disks, path, i + 1, next)

RECURSIVE best_match(_, _, _, _)
\* The loop of lines 182-196 from disk i on; best is None ([some |-> FALSE]) or
\* Some((best_mount_len, disk)), disk being an index of disks.
best_match(disks, path, i, best) ==
    IF i > Len(disks) THEN best
    ELSE LET mount == disks[i].mount
             next == IF StartsWith(path, mount)
                     THEN IF best.some
                          THEN IF Len(mount) > best.len
                               THEN [some |-> TRUE, len |-> Len(mount), disk |-> i]
                               ELSE best
                          ELSE [some |-> TRUE, len |-> Len(mount), disk |-> i]
                     ELSE best
         IN best_match(disks, path, i + 1, next)

\* Disk sizes are in units of 10^8 bytes
get_storage(disks, path) ==
    LET best == best_match(disks, path, 1, [some |-> FALSE, len |-> 0, disk |-> 0])
    IN IF best.some
       THEN LET total == disks[best.disk].total_space
                avail == disks[best.disk].available_space
            IN Fmt1(Ratio(total - avail, 10)) \o <<" ","G","i","B"," ","/"," ">> \o Fmt1(Ratio(total, 10))
                 \o <<" ","G","i","B"," ","(">> \o path \o <<")">>
       ELSE <<"N","/","A"," ","(">> \o path \o <<")">>

(* ----------------------------- the host -------------------------------- *)

\* Every text of length at most n over the characters of alphabet
TextsUpTo(alphabet, n) == UNION {[1..k -> alphabet] : k \in 0..n}

\* Every sequence of at most n elements of set
SeqsUpTo(set, n) == UNION {[1..k -> set] : k \in 0..n}

MaxHostLen == 3
MaxShellLen == 3
MaxOsLines == 2
MaxMemLines == 3
MaxSeconds == 3725
MaxSwap == 12
MaxMounts == 2

\* USER as the environment can hold it: unset, empty, with a line break
UserValues == {None} \cup {Some(t) : t \in TextsUpTo({"a", "\n"}, 2)}

HostnameFiles == {None} \cup {Some(t) : t \in TextsUpTo({"h", " ", "\n"}, MaxHostLen)}

ShellValues == {None} \cup {Some(t) : t \in TextsUpTo({"/", "z", "."}, MaxShellLen)}

OsValues == {<<>>, <<"D">>, <<"\"","D","\"">>, <<"\"","D","\"","D","\"">>, <<"\"">>, <<"D","\"">>, <<"\"","P","R","E","T","T","Y","_","N","A","M","E","=","D","\"">>}

OsLines == {k \o <<"=">> \o v : k \in {<<"P","R","E","T","T","Y","_","N","A","M","E">>, <<"N","A","M","E">>}, v \in OsValues}
             \cup {<<" ","P","R","E","T","T","Y","_","N","A","M","E","=","D">>, <<"P","R","E","T","T","Y","_","N","A","M","E">>}

OsFiles == {None} \cup {Some(Join(ls, <<"\n">>)) : ls \in SeqsUpTo(OsLines, MaxOsLines)}

CommNames == {<<>>, <<"s","y","s","t","e","m","d">>, <<"r","u","n","i","t">>, <<"r","u","n","s","v","i","n","i","t">>, <<"s","6","-","s","v","s","c","a","n">>, <<"i","n","i","t">>,
              <<"I","n","i","t">>, <<"i","n","i","t","d">>, <<"s","h">>}

CommFiles == {None} \cup {Some(c) : c \in CommNames} \cup {Some(c \o <<"\n">>) : c \in CommNames}

ExeLinks == {None, Some(<<"/","s","b","i","n","/","i","n","i","t">>), Some(<<"/","s","b","i","n","/","o","p","e","n","r","c","-","i","n","i","t">>), Some(<<"/","l","i","b","/","r","c","/","s","h","/","o","p","e","n","r","c","-","r","u","n">>),
             Some(<<"/","s","b","i","n","/","o","p","e","n","r">>), Some(<<"/","u","s","r","/","l","i","b","/","s","y","s","t","e","m","d","/","s","y","s","t","e","m","d">>)}

UnameOutcomes == {[spawned |-> FALSE, status |-> 0, stdout |-> <<>>]}
                   \cup {[spawned |-> TRUE, status |-> st, stdout |-> out] :
                           st \in {0, 1}, out \in {<<"6",".","1",".","0","-","1","3","-","a","m","d","6","4","\n">>, <<"6",".","1">>, <<>>, <<"\n">>}}

\* /proc/uptime as the kernel writes it: uptime and idle seconds
UptimeFile(tok) == Some(tok \o <<" ","0",".","0","0","\n">>)

\* Contents of /proc/uptime with no number of seconds in first place
OddUptimeFiles == {None, Some(<<>>), Some(<<" ","\n">>), Some(<<"u","p"," ","1",".","0","0","\n">>), Some(<<"."," ","1",".","0","0","\n">>),
                   Some(<<"1",".","2",".","3"," ","1",".","0","0","\n">>), Some(<<"-","\n">>)}

\* Numbers of seconds that are not whole or not non-negative, and whole ones
\* written with a sign or a fraction
OtherUptimeFiles == {UptimeFile(<<"3","7","2","5",".","4","2">>), UptimeFile(<<"5","9",".","9","9">>), UptimeFile(<<".","5">>),
                     UptimeFile(<<"-","6","1",".","0","0">>), UptimeFile(<<"+","6","0">>), UptimeFile(<<"6","0",".">>)}

MemLines == {<<"M","e","m","T","o","t","a","l",":"," "," "," "," "," "," "," "," "," "," "," "," "," "," ","0"," ","k","B">>, <<"M","e","m","T","o","t","a","l",":"," "," "," "," "," "," "," "," ","4","0","9","6","0","0","0"," ","k","B">>,
             <<"M","e","m","T","o","t","a","l",":"," "," "," "," "," "," "," "," ","8","1","9","2","0","0","0"," ","k","B">>, <<"M","e","m","T","o","t","a","l",":","8","1","9","2","0","0","0"," ","k","B">>,
             <<"M","e","m","A","v","a","i","l","a","b","l","e",":"," "," "," "," ","4","0","9","6","0","0","0"," ","k","B">>, <<"M","e","m","A","v","a","i","l","a","b","l","e",":"," "," "," "," ","8","1","9","2","0","0","0"," ","k","B">>,
             <<"M","e","m","A","v","a","i","l","a","b","l","e",":","4","0","9","6","0","0","0"," ","k","B">>}

MemFiles == {None} \cup {Some(Join(ls, <<"\n">>)) : ls \in SeqsUpTo(MemLines, MaxMemLines)}

SwapCounters == {c \in [total : 0..MaxSwap, used : 0..MaxSwap] : c.used <= c.total}

MountPoints == {<<>>, <<"/">>, <<"/","h","o">>, <<"/","h","o","m","e">>, <<"/","b","o","o","t">>, <<"/","h","o","m","e","/","a","l","i","c","e">>}

\* total_space >= available_space; the two sizes tell duplicate mounts apart
DiskEntries == {[mount |-> m, total_space |-> c[1], available_space |-> c[2]] :
                  m \in MountPoints, c \in {<<1000, 500>>, <<2000, 1000>>}}

DiskLists == SeqsUpTo(DiskEntries, MaxMounts)

\* Scenario S1 of the specification
Baseline ==
    [USER |-> Some(<<"a","l","i","c","e">>), SHELL |-> Some(<<"/","b","i","n","/","z","s","h">>),
     etc_hostname |-> Some(<<"h","o","s","t","\n">>),
     etc_os_release |-> Some(<<"N","A","M","E","=","\"","D","e","b","i","a","n","\"","\n","P","R","E","T","T","Y","_","N","A","M","E","=","\"","D","e","b","i","a","n"," ","G","N","U","/","L","i","n","u","x"," ","1","2","\"","\n">>),
     proc_1_comm |-> Some(<<"s","y","s","t","e","m","d","\n">>), proc_1_exe |-> Some(<<"/","u","s","r","/","l","i","b","/","s","y","s","t","e","m","d","/","s","y","s","t","e","m","d">>),
     run_systemd_exists |-> TRUE,
     uname |-> [spawned |-> TRUE, status |-> 0, stdout |-> <<"6",".","1",".","0","-","1","3","-","a","m","d","6","4","\n">>],
     proc_uptime |-> UptimeFile(<<"3","7","2","5",".","4","2">>),
     proc_meminfo |-> Some(<<"M","e","m","T","o","t","a","l",":"," "," "," "," "," "," "," "," ","8","1","9","2","0","0","0"," ","k","B","\n","M","e","m","F","r","e","e",":"," "," "," "," "," "," "," "," "," ","1","0","0","0","0","0","0"," ","k","B","\n","M","e","m","A","v","a","i","l","a","b","l","e",":"," "," "," "," ","4","0","9","6","0","0","0"," ","k","B","\n">>),
     swap_counters |-> [total |-> 20, used |-> 5],
     disks |-> <<[mount |-> <<"/">>, total_space |-> 500, available_space |-> 300]>>,
     overflow_checks |-> FALSE]

\* Scenario S5: every source absent
AllAbsent ==
    [USER |-> None, SHELL |-> None, etc_hostname |-> None, etc_os_release |-> None,
     proc_1_comm |-> None, proc_1_exe |-> None, run_systemd_exists |-> FALSE,
     uname |-> [spawned |-> FALSE, status |-> 0, stdout |-> <<>>],
     proc_uptime |-> None, proc_meminfo |-> None,
     swap_counters |-> [total |-> 0, used |-> 0], disks |-> <<>>,
     overflow_checks |-> FALSE]

(* ----------------------------- the program ----------------------------- *)

VARIABLES
    sys,            \* the host the program runs on, and the build profile
    whole_seconds,  \* the whole number /proc/uptime was written from, or -1
    pc,             \* the line of main() that executes next; 30 is its end
    panicked,       \* the process died of a panic
    calls,          \* the probes invoked so far, in order
    stdout,         \* the text written to standard output
    user, host, os, init, kernel, uptime, mem, swap,
    storage_boot, storage_root, storage_home, shell

vars == <<sys, whole_seconds, pc, panicked, calls, stdout, user, host, os, init, kernel, uptime, mem, swap, storage_boot, storage_root, storage_home, shell>>

\* The state main() starts in on host h
Start(h, s) ==
    /\ sys = h
    /\ whole_seconds = s
    /\ pc = 5
    /\ panicked = FALSE
    /\ calls = <<>>
    /\ stdout = <<>>
    /\ user = <<>>
    /\ host = <<>>
    /\ os = <<>>
    /\ init = <<>>
    /\ kernel = <<>>
    /\ uptime = <<>>
    /\ mem = <<>>
    /\ swap = <<>>
    /\ storage_boot = <<>>
    /\ storage_root = <<>>
    /\ storage_home = <<>>
    /\ shell = <<>>

InitUser == \E u \in UserValues : Start([Baseline EXCEPT !.USER = u], -1)

InitHostname == \E f \in HostnameFiles : Start([Baseline EXCEPT !.etc_hostname = f], -1)

InitShell == \E v \in ShellValues : Start([Baseline EXCEPT !.SHELL = v], -1)

InitOs == \E f \in OsFiles : Start([Baseline EXCEPT !.etc_os_release = f], -1)

InitInit == \E c \in CommFiles, e \in ExeLinks, x \in BOOLEAN :
    Start([Baseline EXCEPT !.proc_1_comm = c, !.proc_1_exe = e, !.run_systemd_exists = x], -1)

InitKernel == \E o \in UnameOutcomes : Start([Baseline EXCEPT !.uname = o], -1)

InitUptime ==
    \/ \E s \in (0..MaxSeconds) \cup {86399, 180000, 359999} :
          Start([Baseline EXCEPT !.proc_uptime = UptimeFile(Dec(s))], s)
    \/ \E s \in {0, 59, 60, 3725} :
          Start([Baseline EXCEPT !.proc_uptime = UptimeFile(Dec(s) \o <<".","0","0">>)], s)
    \/ \E f \in OddUptimeFiles \cup OtherUptimeFiles :
          Start([Baseline EXCEPT !.proc_uptime = f], -1)

InitMemory == \E f \in MemFiles, oc \in BOOLEAN :
    Start([Baseline EXCEPT !.proc_meminfo = f, !.overflow_checks = oc], -1)

InitSwap == \E c \in SwapCounters : Start([Baseline EXCEPT !.swap_counters = c], -1)

InitStorage == \E d \in DiskLists : Start([Baseline EXCEPT !.disks = d], -1)

InitScenarios == Start(Baseline, -1) \/ Start(AllAbsent, -1)

Init == \/ InitScenarios \/ InitUser \/ InitHostname \/ InitShell \/ InitOs \/ InitInit \/ InitKernel
        \/ InitUptime \/ InitMemory \/ InitSwap \/ InitStorage

\* main.rs:5
main_5_get_username ==
    /\ pc = 5 /\ ~panicked
    /\ user' = get_username(sys.USER)
    /\ calls' = Append(calls, "get_username")
    /\ pc' = 6
    /\ UNCHANGED <<sys, whole_seconds, panicked, stdout, host, os, init, kernel, uptime, mem,
        swap, storage_boot, storage_root, storage_home, shell>>

\* main.rs:6
main_6_get_hostname ==
    /\ pc = 6 /\ ~panicked
    /\ host' = get_hostname(sys.etc_hostname)
    /\ calls' = Append(calls, "get_hostname")
    /\ pc' = 7
    /\ UNCHANGED <<sys, whole_seconds, panicked, stdout, user, os, init, kernel, uptime, mem,
        swap, storage_boot, storage_root, storage_home, shell>>

\* main.rs:7
main_7_get_os ==
    /\ pc = 7 /\ ~panicked
    /\ os' = get_os(sys.etc_os_release)
    /\ calls' = Append(calls, "get_os")
    /\ pc' = 8
    /\ UNCHANGED <<sys, whole_seconds, panicked, stdout, user, host, init, kernel, uptime, mem,
        swap, storage_boot, storage_root, storage_home, shell>>

\* main.rs:8
main_8_detect_init ==
    /\ pc = 8 /\ ~panicked
    /\ init' = detect_init(sys.proc_1_comm, sys.proc_1_exe, sys.run_systemd_exists)
    /\ calls' = Append(calls, "detect_init")
    /\ pc' = 9
    /\ UNCHANGED <<sys, whole_seconds, panicked, stdout, user, host, os, kernel, uptime, mem,
        swap, storage_boot, storage_root, storage_home, shell>>

\* main.rs:9
main_9_get_kernel ==
    /\ pc = 9 /\ ~panicked
    /\ kernel' = get_kernel(sys.uname)
    /\ calls' = Append(calls, "get_kernel")
    /\ pc' = 10
    /\ UNCHANGED <<sys, whole_seconds, panicked, stdout, user, host, os, init, uptime, mem,
        swap, storage_boot, storage_root, storage_home, shell>>

\* main.rs:10
main_10_get_uptime ==
    /\ pc = 10 /\ ~panicked
    /\ uptime' = get_uptime(sys.proc_uptime)
    /\ calls' = Append(calls, "get_uptime")
    /\ pc' = 11
    /\ UNCHANGED <<sys, whole_seconds, panicked, stdout, user, host, os, init, kernel, mem,
        swap, storage_boot, storage_root, storage_home, shell>>

\* main.rs:11
main_11_get_memory ==
    /\ pc = 11 /\ ~panicked
    /\ calls' = Append(calls, "get_memory")
    /\ LET m == get_memory(sys.proc_meminfo, sys.overflow_checks)
       IN IF m.panic
          THEN panicked' = TRUE /\ UNCHANGED <<pc, mem>>
          ELSE mem' = m.text /\ pc' = 12 /\ UNCHANGED panicked
    /\ UNCHANGED <<sys, whole_seconds, stdout, user, host, os, init, kernel, uptime, swap,
        storage_boot, storage_root, storage_home, shell>>

\* main() without the call of line 13: get_storage("/boot") is never invoked
main_12_get_swap_skips_boot ==
    /\ pc = 12 /\ ~panicked
    /\ swap' = get_swap(sys.swap_counters)
    /\ calls' = Append(calls, "get_swap")
    /\ pc' = 14
    /\ UNCHANGED <<sys, whole_seconds, panicked, stdout, user, host, os, init, kernel, uptime,
        mem, storage_boot, storage_root, storage_home, shell>>

\* main.rs:12
main_12_get_swap ==
    /\ pc = 12 /\ ~panicked
    /\ swap' = get_swap(sys.swap_counters)
    /\ calls' = Append(calls, "get_swap")
    /\ pc' = 13
    /\ UNCHANGED <<sys, whole_seconds, panicked, stdout, user, host, os, init, kernel, uptime,
        mem, storage_boot, storage_root, storage_home, shell>>

\* main.rs:13
main_13_get_storage_boot ==
    /\ pc = 13 /\ ~panicked
    /\ storage_boot' = get_storage(sys.disks, <<"/","b","o","o","t">>)
    /\ calls' = Append(calls, "get_storage(/boot)")
    /\ pc' = 14
    /\ UNCHANGED <<sys, whole_seconds, panicked, stdout, user, host, os, init, kernel, uptime,
        mem, swap, storage_root, storage_home, shell>>

\* main.rs:14
main_14_get_storage_root ==
    /\ pc = 14 /\ ~panicked
    /\ storage_root' = get_storage(sys.disks, <<"/">>)
    /\ calls' = Append(calls, "get_storage(/)")
    /\ pc' = 15
    /\ UNCHANGED <<sys, whole_seconds, panicked, stdout, user, host, os, init, kernel, uptime,
        mem, swap, storage_boot, storage_home, shell>>

\* main.rs:15
main_15_get_storage_home ==
    /\ pc = 15 /\ ~panicked
    /\ storage_home' = get_storage(sys.disks, <<"/","h","o","m","e">>)
    /\ calls' = Append(calls, "get_storage(/home)")
    /\ pc' = 16
    /\ UNCHANGED <<sys, whole_seconds, panicked, stdout, user, host, os, init, kernel, uptime,
        mem, swap, storage_boot, storage_root, shell>>

\* main.rs:16
main_16_get_shell ==
    /\ pc = 16 /\ ~panicked
    /\ shell' = get_shell(sys.SHELL)
    /\ calls' = Append(calls, "get_shell")
    /\ pc' = 18
    /\ UNCHANGED <<sys, whole_seconds, panicked, stdout, user, host, os, init, kernel, uptime,
        mem, swap, storage_boot, storage_root, storage_home>>

\* println!: the text and a line break are written to standard output
println(line, text) ==
    /\ pc = line /\ ~panicked
    /\ stdout' = stdout \o text \o <<"\n">>
    /\ pc' = line + 1
    /\ UNCHANGED <<sys, whole_seconds, panicked, calls, user, host, os, init, kernel, uptime,
        mem, swap, storage_boot, storage_root, storage_home, shell>>

main_18_println == println(18, user \o <<"@">> \o host)

main_19_println == println(19, <<"-","-","-","-","-","-","-","-","-","-">>)

main_20_println == println(20, <<"O","S"," "," "," "," "," "," ",":"," ">> \o os)

main_21_println == println(21, <<"I","n","i","t"," "," "," "," ",":"," ">> \o init)

main_22_println == println(22, <<"K","e","r","n","e","l"," "," ",":"," ">> \o kernel)

main_23_println == println(23, <<"U","p","t","i","m","e"," "," ",":"," ">> \o uptime)

main_24_println == println(24, <<"S","h","e","l","l"," "," "," ",":"," ">> \o shell)

main_25_println == println(25, <<"M","e","m","o","r","y"," "," ",":"," ">> \o mem)

main_26_println == println(26, <<"S","w","a","p"," "," "," "," ",":"," ">> \o swap)

main_27_println == println(27, <<"S","t","o","r","a","g","e"," ",":"," ">> \o storage_boot)

main_28_println == println(28, <<" "," "," "," "," "," "," "," "," "," ">> \o storage_root)

main_29_println == println(29, <<" "," "," "," "," "," "," "," "," "," ">> \o storage_home)

Next ==
    \/ main_5_get_username
    \/ main_6_get_hostname
    \/ main_7_get_os
    \/ main_8_detect_init
    \/ main_9_get_kernel
    \/ main_10_get_uptime
    \/ main_11_get_memory
    \/ main_12_get_swap
    \/ main_13_get_storage_boot
    \/ main_14_get_storage_root
    \/ main_15_get_storage_home
    \/ main_16_get_shell
    \/ main_18_println
    \/ main_19_println
    \/ main_20_println
    \/ main_21_println
    \/ main_22_println
    \/ main_23_println
    \/ main_24_println
    \/ main_25_println
    \/ main_26_println
    \/ main_27_println
    \/ main_28_println
    \/ main_29_println

Spec == Init /\ [][Next]_vars

SpecHostname == InitHostname /\ [][Next]_vars

SpecOs == InitOs /\ [][Next]_vars

SpecInit == InitInit /\ [][Next]_vars

SpecKernel == InitKernel /\ [][Next]_vars

SpecUptime == InitUptime /\ [][Next]_vars

SpecMemory == InitMemory /\ [][Next]_vars

SpecStorage == InitStorage /\ [][Next]_vars

\* main() has returned
Done == pc = 30 /\ ~panicked

(* ----------------------------- claims ---------------------------------- *)

\* A FieldValue: at least one character, no line break
FieldValue(t) == Len(t) >= 1 /\ \A i \in 1..Len(t) : t[i] # "\n"

\* C1 (Totality): whatever the host, every probe returns a text of length at
\* least 1 that holds no line break: once the call on a line of main() has
\* returned, its result is such a text, and no probe ends the process.
C1_Totality ==
    /\ ~panicked
    /\ pc > 5 => FieldValue(user)
    /\ pc > 6 => FieldValue(host)
    /\ pc > 7 => FieldValue(os)
    /\ pc > 8 => FieldValue(init)
    /\ pc > 9 => FieldValue(kernel)
    /\ pc > 10 => FieldValue(uptime)
    /\ pc > 11 => FieldValue(mem)
    /\ pc > 12 => FieldValue(swap)
    /\ pc > 13 => FieldValue(storage_boot)
    /\ pc > 14 => FieldValue(storage_root)
    /\ pc > 15 => FieldValue(storage_home)
    /\ pc > 16 => FieldValue(shell)

\* The order of the output lines
DisplayOrder == <<"get_username", "get_hostname", "get_os", "detect_init", "get_kernel",
                  "get_uptime", "get_shell", "get_memory", "get_swap",
                  "get_storage(/boot)", "get_storage(/)", "get_storage(/home)">>

\* The order of the calls: the shell probe comes last
CallOrder == <<"get_username", "get_hostname", "get_os", "detect_init", "get_kernel",
               "get_uptime", "get_memory", "get_swap",
               "get_storage(/boot)", "get_storage(/)", "get_storage(/home)", "get_shell">>

\* C2 as claimed: the probes are invoked once each in display order (the shell
\* probe before the memory, swap and storage probes), all of them before the
\* first output line is written.
C2_DisplayOrder ==
    /\ StartsWith(DisplayOrder, calls)
    /\ stdout # <<>> => calls = DisplayOrder

\* C2 as amended: the probes are invoked once each in the order user, hostname,
\* os, init, kernel, uptime, memory, swap, storage(/boot), storage(/),
\* storage(/home), shell (the shell probe last), all of them before the first
\* output line is written.
C2_CallOrder ==
    /\ StartsWith(CallOrder, calls)
    /\ stdout # <<>> => calls = CallOrder

\* All twelve probes have been invoked and main() has printed and returned
C2_Witness == Done /\ Len(calls) = 12 /\ stdout # <<>> /\ calls[12] = "get_shell"

\* The first whitespace-separated token of /proc/uptime is there and is a number
UptimeParsed ==
    /\ sys.proc_uptime.ok
    /\ SplitWhitespace(sys.proc_uptime.text) # <<>>
    /\ parse_f64(SplitWhitespace(sys.proc_uptime.text)[1]).ok

\* C3: the uptime probe returns `unknown` whenever /proc/uptime cannot be read
\* or its first token is missing or no number, and an `{H}h {M}m` value only
\* when a number of seconds was parsed.
C3_UptimeFallback ==
    pc > 10 => /\ ~UptimeParsed => uptime = unknown
               /\ uptime # unknown => UptimeParsed

\* C4: the kernel probe returns `unknown` whenever `uname -r` could not be
\* started or exited with a non-zero status, and the trimmed standard output
\* only on exit status zero.
C4_KernelFallback ==
    pc > 9 => IF sys.uname.spawned /\ sys.uname.status = 0
              THEN kernel = Trim(sys.uname.stdout)
              ELSE kernel = unknown

\* a <= b on u64 values, a negative integer standing for 2^64 minus its magnitude
LeU64(a, b) == IF (a < 0) = (b < 0) THEN a <= b ELSE b < 0

\* C5: for every /proc/meminfo the memory probe returns a value and does not
\* abort: `unknown` when the file is unreadable or total is zero, otherwise
\* used = total - available with used no larger than total (no underflow).
C5_MemoryNoUnderflow ==
    LET m == get_memory(sys.proc_meminfo, sys.overflow_checks) IN
    /\ ~panicked
    /\ pc > 11 => /\ mem = m.text
                  /\ ~sys.proc_meminfo.ok \/ m.total = 0 => mem = unknown
                  /\ LeU64(0, m.used) /\ LeU64(m.used, m.total)

\* The paths the longest-prefix rule is checked on: those main() queries and others
QueryPaths == {<<"/","b","o","o","t">>, <<"/">>, <<"/","h","o","m","e">>, <<"/","h","o","m","e","/","a","l","i","c","e">>, <<"/","h">>, <<>>}

\* The disks whose mount point is a prefix of path
Candidates(path) == {i \in 1..Len(sys.disks) : StartsWith(path, sys.disks[i].mount)}

\* What the longest-prefix rule asks of storage(path): N/A when no mount point is
\* a prefix of path, otherwise the report of the first-seen disk among those
\* with the longest such mount point
LongestPrefixReport(path) ==
    IF Candidates(path) = {} THEN <<"N","/","A"," ","(">> \o path \o <<")">>
    ELSE LET longest == {i \in Candidates(path) : \A j \in Candidates(path) :
                            Len(sys.disks[j].mount) <= Len(sys.disks[i].mount)}
             first == CHOOSE i \in longest : \A j \in longest : i <= j
         IN get_storage(<<sys.disks[first]>>, path)

\* C6 (longest-prefix rule): for every disk list and path, storage(path) reports
\* the first-seen disk among those whose mount point is a prefix of path and is
\* longest, and `N/A ({path})` exactly when no mount point is a prefix of path.
C6_LongestPrefix ==
    /\ \A path \in QueryPaths :
          /\ get_storage(sys.disks, path) = LongestPrefixReport(path)
          /\ get_storage(sys.disks, path) = <<"N","/","A"," ","(">> \o path \o <<")">> <=> Candidates(path) = {}
    /\ pc > 13 => storage_boot = LongestPrefixReport(<<"/","b","o","o","t">>)
    /\ pc > 14 => storage_root = LongestPrefixReport(<<"/">>)
    /\ pc > 15 => storage_home = LongestPrefixReport(<<"/","h","o","m","e">>)

\* /home is mounted twice with different sizes after /: the first /home is reported
C6_Witness ==
    /\ pc > 15
    /\ Len(sys.disks) = 2
    /\ sys.disks[1].mount = <<"/","h","o","m","e">> /\ sys.disks[2].mount = <<"/","h","o","m","e">>
    /\ sys.disks[1].total_space = 2000 /\ sys.disks[2].total_space = 1000
    /\ storage_home = <<"1","0","0",".","0"," ","G","i","B"," ","/"," ","2","0","0",".","0"," ","G","i","B"," ","(","/","h","o","m","e",")">>
    /\ storage_boot = <<"N","/","A"," ","(","/","b","o","o","t",")">>

\* C7 (init table closure): the init probe returns exactly the result of the
\* decision table on comm, exe and the existence of /run/systemd/systemd, and
\* that existence changes the result only in the last two rows.
C7_InitTable ==
    LET comm == Trim(IF sys.proc_1_comm.ok THEN sys.proc_1_comm.text ELSE <<>>)
        exe == IF sys.proc_1_exe.ok THEN sys.proc_1_exe.text ELSE <<>>
        named == {<<"s","y","s","t","e","m","d">>, <<"r","u","n","i","t">>, <<"r","u","n","s","v","i","n","i","t">>, <<"s","6","-","s","v","s","c","a","n">>, <<"i","n","i","t">>}
    IN pc > 8 =>
         /\ comm = <<"s","y","s","t","e","m","d">> => init = <<"s","y","s","t","e","m","d">>
         /\ comm = <<"r","u","n","i","t">> \/ comm = <<"r","u","n","s","v","i","n","i","t">> => init = <<"r","u","n","i","t">>
         /\ comm = <<"s","6","-","s","v","s","c","a","n">> => init = <<"s","6">>
         /\ comm = <<"i","n","i","t">> /\ Contains(exe, <<"o","p","e","n","r","c">>) => init = <<"o","p","e","n","r","c">>
         /\ comm = <<"i","n","i","t">> /\ ~Contains(exe, <<"o","p","e","n","r","c">>) => init = <<"s","y","s","v","i","n","i","t">>
         /\ comm \notin named /\ sys.run_systemd_exists => init = <<"s","y","s","t","e","m","d"," ","(","f","a","l","l","b","a","c","k",")">>
         /\ comm \notin named /\ ~sys.run_systemd_exists => init = <<"u","n","k","n","o","w","n"," ","(">> \o comm \o <<")">>
         /\ comm \in named =>
              detect_init(sys.proc_1_comm, sys.proc_1_exe, TRUE)
                = detect_init(sys.proc_1_comm, sys.proc_1_exe, FALSE)

\* comm is init, exe names openrc in mid-path and /run/systemd/systemd exists
C7_Witness ==
    /\ pc > 8
    /\ sys.proc_1_comm = Some(<<"i","n","i","t","\n">>)
    /\ sys.proc_1_exe = Some(<<"/","s","b","i","n","/","o","p","e","n","r","c","-","i","n","i","t">>)
    /\ sys.run_systemd_exists
    /\ init = <<"o","p","e","n","r","c">>

\* C8 (layout stability): whatever the host, the output of a run is exactly 12
\* lines, each ended by a line break: `{user}@{hostname}`, `----------`, the
\* labels OS, Init, Kernel, Uptime, Shell, Memory, Swap, Storage in that order,
\* and the storage values of /boot, / and /home on lines 10 to 12.
C8_Layout ==
    /\ ~panicked
    /\ Done =>
         LET ls == SplitOn(stdout, "\n") IN
         /\ Len(ls) = 13 /\ ls[13] = <<>>
         /\ ls[1] = user \o <<"@">> \o host
         /\ ls[2] = <<"-","-","-","-","-","-","-","-","-","-">>
         /\ ls[3] = <<"O","S"," "," "," "," "," "," ",":"," ">> \o os
         /\ ls[4] = <<"I","n","i","t"," "," "," "," ",":"," ">> \o init
         /\ ls[5] = <<"K","e","r","n","e","l"," "," ",":"," ">> \o kernel
         /\ ls[6] = <<"U","p","t","i","m","e"," "," ",":"," ">> \o uptime
         /\ ls[7] = <<"S","h","e","l","l"," "," "," ",":"," ">> \o shell
         /\ ls[8] = <<"M","e","m","o","r","y"," "," ",":"," ">> \o mem
         /\ ls[9] = <<"S","w","a","p"," "," "," "," ",":"," ">> \o swap
         /\ ls[10] = <<"S","t","o","r","a","g","e"," ",":"," ">> \o storage_boot
         /\ ls[11] = <<" "," "," "," "," "," "," "," "," "," ">> \o storage_root
         /\ ls[12] = <<" "," "," "," "," "," "," "," "," "," ">> \o storage_home

\* A value without the double quote before it and the double quote after it
Unquoted(v) ==
    LET a == IF v # <<>> /\ Head(v) = "\"" THEN Tail(v) ELSE v
    IN IF a # <<>> /\ a[Len(a)] = "\"" THEN SubSeq(a, 1, Len(a) - 1) ELSE a

\* C9: the os probe returns the value of the first line of /etc/os-release whose
\* key is PRETTY_NAME, changed only by removing the double quotes around it
\* (what is inside the value is kept), and `unknown` when there is no such line
\* or no file.
C9_OsValue ==
    pc > 7 =>
      LET lines == IF sys.etc_os_release.ok THEN Lines(sys.etc_os_release.text) ELSE <<>>
          hits == {i \in 1..Len(lines) : StartsWith(lines[i], <<"P","R","E","T","T","Y","_","N","A","M","E","=">>)}
      IN IF hits = {} THEN os = unknown
         ELSE LET line == lines[CHOOSE i \in hits : \A j \in hits : i <= j]
              IN os = Unquoted(SubSeq(line, Len(<<"P","R","E","T","T","Y","_","N","A","M","E","=">>) + 1, Len(line)))

\* C10 (uptime rendering): for every non-negative whole number s of seconds in
\* /proc/uptime the uptime probe returns `{H}h {M}m` with H = floor(s / 3600)
\* and M = floor(s / 60) mod 60, M in 0..59, hours not broken out into days.
C10_UptimeRendering ==
    pc > 10 /\ whole_seconds >= 0 =>
      /\ uptime = Dec(whole_seconds \div 3600) \o <<"h"," ">> \o Dec((whole_seconds \div 60) % 60) \o <<"m">>
      /\ whole_seconds = 3725 => uptime = <<"1","h"," ","2","m">>
      /\ whole_seconds = 59 => uptime = <<"0","h"," ","0","m">>
      /\ whole_seconds = 180000 => uptime = <<"5","0","h"," ","0","m">>

\* 180000 seconds were read and rendered as fifty hours
C10_Witness == pc > 10 /\ whole_seconds = 180000 /\ uptime = <<"5","0","h"," ","0","m">>
====
